---- MODULE Spec2Model ----
(***************************************************************************)
(* A model of the premier-picklist batch program: main.py runs, for each   *)
(* store in turn, the stages of store.Store (import, parse, clean and      *)
(* normalize, pick list, two QC reports, log) against a MySQL ledger that  *)
(* outlives the run.  Strings are TLA+ strings; Len, SubSeq and \o act on  *)
(* them character by character, as Python's len, slicing and + do.         *)
(***************************************************************************)
EXTENDS Integers, Sequences, FiniteSets, TLC

\* ------------------------------------------------------------------ bounds
\* How many times the batch program is started.
MaxRuns == 2
\* The longest list of orders the order source returns for one store.
MaxFetch == 2

\* The normalizer taken alone: the most distinct SKUs one grouping query
\* returns, the largest quantity of one SKU, and the most segments of one SKU.
MaxRows == 2
MaxQuantity == 2
MaxSegments == 5

\* --------------------------------------------------------------- constants
\* main.py STORES: the first two of the six stores, processed in this order.
STORES == <<"amazon", "ebay">>

\* The orders the order source can return for each store (orderNumber,
\* billTo.name, items); every item is (sku, name, quantity).  A fetch is any
\* list of the store's orders, with repeats, of at most MaxFetch orders.
Catalog ==
  [amazon |->
     { [orderNumber |-> "1001", name |-> "Ann",
        items |-> << [sku |-> "PREM-150-XL", name |-> "Shirt 150", quantity |-> 1] >>],
       [orderNumber |-> "1002", name |-> "Ann",
        items |-> << [sku |-> "PREM-150NEW-MED", name |-> "Shirt 150", quantity |-> 2],
                     [sku |-> "", name |-> "Gift Box", quantity |-> 1] >>],
       [orderNumber |-> "1003", name |-> "Ann",
        items |-> << [sku |-> "PREM-150-XL", name |-> "Shirt 150", quantity |-> 2] >>] },
   ebay |->
     { [orderNumber |-> "2001", name |-> "Bob",
        items |-> << [sku |-> "PremJeans-BLK-30", name |-> "Jeans", quantity |-> 3] >>] }]

\* sku_conversions.sku_dict: obsolete SKU -> revised SKU.
sku_dict == [s \in {"PREM-150OLD-XL"} |-> "PREM-150-XL"]

\* create_pick_list's desired_order: size prefix -> priority.
desired_order ==
  [p \in {"SM", "ME", "LR", "XL", "2X", "3X", "4X", "5X", "6X", "7X", "8X",
          "32", "34", "36", "38", "40", "42", "44", "46", "48", "50"} |->
     CASE p = "SM" -> 1  [] p = "ME" -> 2  [] p = "LR" -> 3  [] p = "XL" -> 4
       [] p = "2X" -> 5  [] p = "3X" -> 6  [] p = "4X" -> 7  [] p = "5X" -> 8
       [] p = "6X" -> 9  [] p = "7X" -> 10 [] p = "8X" -> 11 [] p = "32" -> 12
       [] p = "34" -> 13 [] p = "36" -> 14 [] p = "38" -> 15 [] p = "40" -> 16
       [] p = "42" -> 17 [] p = "44" -> 18 [] p = "46" -> 19 [] p = "48" -> 20
       [] p = "50" -> 21]

\* ------------------------------------------------------------------- state
VARIABLES
  run,        \* how many times main.py has been started
  pc,         \* where main.py is: "idle" between runs, else the stage about to run
  exit,       \* how the last run ended: "none", "ok", "dberror", "dblost", ...
  st,         \* index in STORES of current_store (0 between runs)
  order_tbl,  \* {store}_order: per store, the rows in insertion order
  item_tbl,   \* {store}_item: per store, the rows in insertion order
  temp_tbl,   \* the temporary tables of the connection cnx
  pick_file,  \* '__ORDERS [{store}]__.txt' per store
  log_file,   \* '_LOG-{store}_.txt' per store
  awaiting_shipment_orders_list,  \* Store attribute: the fetched orders
  oi,         \* parse loop: index of the order being classified
  ii,         \* parse loop: index of the next item of a new order to insert
  log,        \* Store attribute: one entry per order classified
  rows,       \* clean_and_normalize_order_data: cursor.fetchall()
  ri,         \* clean_and_normalize_order_data: index of the next row
  skus_grouped_by_style_to_size_and_quantity,  \* Store attribute: the grouping dictionary
  derived,    \* the normalizer's locals after the last row: what it derived
  cohort,     \* history: the order numbers the grouping query of this store's run joined
  recorded,   \* history: the order numbers this store's run inserted
  seen_again, \* history: per store, the order numbers classified as already in the ledger
  picked      \* history: per store, the order numbers joined for a pick list that was written

vars == <<run, pc, exit, st, order_tbl, item_tbl, temp_tbl, pick_file, log_file,
          awaiting_shipment_orders_list, oi, ii, log, rows, ri,
          skus_grouped_by_style_to_size_and_quantity, derived, cohort, recorded, seen_again,
          picked>>

dbVars == <<order_tbl, item_tbl, temp_tbl>>
fileVars == <<pick_file, log_file>>
parseVars == <<awaiting_shipment_orders_list, oi, ii, log>>
cleanVars == <<rows, ri, skus_grouped_by_style_to_size_and_quantity, derived>>
histVars == <<cohort, recorded, seen_again, picked>>

StoreNames == {STORES[i] : i \in 1..Len(STORES)}
store_name == STORES[st]

NoFile == [exists |-> FALSE, pick |-> <<>>, customers |-> <<>>, quantities |-> <<>>]
NoLog == [exists |-> FALSE, blocks |-> <<>>]
NoTable == [exists |-> FALSE, rows |-> <<>>]
NoTemp == [customer_with_multiple_order |-> NoTable,
           order_with_multiple_quantity |-> NoTable]
NoDerived == [rule |-> "none", key |-> "", size |-> ""]

\* ------------------------------------------------------- sequence helpers
RECURSIVE SeqsUpTo(_, _)
SeqsUpTo(S, n) ==
  IF n = 0 THEN {<<>>}
  ELSE LET shorter == SeqsUpTo(S, n - 1)
       IN shorter \cup {Append(q, x) : q \in {r \in shorter : Len(r) = n - 1}, x \in S}

Range(q) == {q[i] : i \in 1..Len(q)}

\* The numbers of a set in ascending order.
Ascending(S) ==
  [k \in 1..Cardinality(S) |-> CHOOSE i \in S : Cardinality({j \in S : j < i}) = k - 1]

\* ---------------------------------------------------------- ledger queries
\* A lookup by the wrong column: the order is never found.
OrderRow_WrongColumn(s, order_num) ==
  {i \in 1..Len(order_tbl[s]) : order_tbl[s][i].customer_name = order_num}

\* SELECT * FROM {store}_order WHERE order_number = %s; cursor.fetchone()
OrderRow(s, order_num) ==
  {i \in 1..Len(order_tbl[s]) : order_tbl[s][i].order_number = order_num}

\* An item's SKU as parse_awaiting_shipment_order_data stores and logs it.
ItemSku(item) ==
  LET sku == IF item.sku \in DOMAIN sku_dict THEN sku_dict[item.sku] ELSE item.sku
  IN IF sku = "" THEN item.name ELSE sku

\* curr_order_items_list of an order: (sku, quantity) of each item.
ItemList(order) ==
  [i \in 1..Len(order.items) |-> <<ItemSku(order.items[i]), order.items[i].quantity>>]

\* Every order is logged as a new one.
LogEntry_AlwaysNew(order, is_new) ==
  [order_number |-> order.orderNumber, customer |-> order.name,
   is_new |-> 1, item_list |-> ItemList(order)]

LogEntry(order, is_new) ==
  [order_number |-> order.orderNumber, customer |-> order.name,
   is_new |-> is_new, item_list |-> ItemList(order)]

\* ------------------------------------------------------------------- main
Init ==
  /\ run = 0
  /\ pc = "idle"
  /\ exit = "none"
  /\ st = 0
  /\ order_tbl = [s \in StoreNames |-> <<>>]
  /\ item_tbl = [s \in StoreNames |-> <<>>]
  /\ temp_tbl = NoTemp
  /\ pick_file = [s \in StoreNames |-> NoFile]
  /\ log_file = [s \in StoreNames |-> NoLog]
  /\ awaiting_shipment_orders_list = <<>>
  /\ oi = 0
  /\ ii = 0
  /\ log = <<>>
  /\ rows = <<>>
  /\ ri = 0
  /\ skus_grouped_by_style_to_size_and_quantity = <<>>
  /\ derived = NoDerived
  /\ cohort = {}
  /\ recorded = {}
  /\ seen_again = [s \in StoreNames |-> {}]
  /\ picked = [s \in StoreNames |-> {}]

\* The attributes Store.__init__ sets, and the locals of its methods.
FreshStore ==
  /\ awaiting_shipment_orders_list' = <<>>
  /\ oi' = 0
  /\ ii' = 0
  /\ log' = <<>>
  /\ rows' = <<>>
  /\ ri' = 0
  /\ skus_grouped_by_style_to_size_and_quantity' = <<>>
  /\ derived' = NoDerived
  /\ cohort' = {}
  /\ recorded' = {}

\* store.Store(...): a fresh Store object for STORES[i], about to import.
NewStore(i) ==
  /\ st' = i
  /\ pc' = "import"
  /\ FreshStore

\* The process ends (normally, on a caught mysql.connector.Error, or on an
\* uncaught exception): its objects, the connection and the connection's
\* temporary tables go with it.
EndRun(how) ==
  /\ pc' = "idle"
  /\ exit' = how
  /\ st' = 0
  /\ temp_tbl' = NoTemp
  /\ FreshStore

\* main.py is started: refresh_stores, then mysql.connector.connect, then the
\* first store.
StartRun ==
  /\ pc = "idle"
  /\ run < MaxRuns
  /\ run' = run + 1
  /\ \E outcome \in {"ok", "norefresh", "noconnect"} :
       IF outcome = "ok"
       THEN /\ NewStore(1)
            /\ exit' = "none"
       ELSE /\ exit' = IF outcome = "norefresh" THEN "norefresh" ELSE "dberror"
            /\ UNCHANGED <<pc, st, parseVars, cleanVars, cohort, recorded>>
  /\ UNCHANGED <<dbVars, fileVars, seen_again, picked>>

\* import_awaiting_shipment_orders: the order source answers with a list.
Import ==
  /\ pc = "import"
  /\ \E fetched \in SeqsUpTo(Catalog[store_name], MaxFetch) :
       awaiting_shipment_orders_list' = fetched
  /\ oi' = 1
  /\ pc' = "parse"
  /\ UNCHANGED <<run, exit, st, dbVars, fileVars, ii, log, cleanVars, histVars>>

\* A database statement raises mysql.connector.Error, because the statement
\* is refused ("dberror") or because the connection is lost ("dblost"): the
\* statement changed nothing, no method of Store catches the error, and
\* control is in main's except clause.
DbError ==
  /\ pc \in {"parse", "items", "clean", "customers", "customers_select",
            "quantity", "quantity_select"}
  /\ \E kind \in {"dberror", "dblost"} : exit' = kind
  /\ pc' = "except"
  /\ UNCHANGED <<run, st, dbVars, fileVars, parseVars, cleanVars, histVars>>

\* except mysql.connector.Error as e: print(e); the program ends.
MainExcept ==
  /\ pc = "except"
  /\ EndRun(exit)
  /\ UNCHANGED <<run, order_tbl, item_tbl, fileVars, seen_again, picked>>

\* ------------------------------------- parse_awaiting_shipment_order_data
\* The UPDATE is never committed.
MarkSeen_NotCommitted(tbl, order_num) == tbl

\* The UPDATE flips the flag instead of clearing it.
MarkSeen_Toggle(tbl, order_num) ==
  [i \in 1..Len(tbl) |->
     IF tbl[i].order_number = order_num
     THEN [tbl[i] EXCEPT !.is_new = ~tbl[i].is_new] ELSE tbl[i]]

\* UPDATE {store}_order SET is_new = 0 WHERE order_number = %s; commit
MarkSeen(tbl, order_num) ==
  [i \in 1..Len(tbl) |->
     IF tbl[i].order_number = order_num THEN [tbl[i] EXCEPT !.is_new = FALSE] ELSE tbl[i]]

\* The order's number is in the table: UPDATE ... SET is_new = 0, commit, log it.
ParseSeenOrder ==
  /\ pc = "parse"
  /\ oi <= Len(awaiting_shipment_orders_list)
  /\ LET order == awaiting_shipment_orders_list[oi]
     IN /\ OrderRow(store_name, order.orderNumber) # {}
        /\ order_tbl' = [order_tbl EXCEPT ![store_name] = MarkSeen(@, order.orderNumber)]
        /\ log' = Append(log, LogEntry(order, 0))
        /\ seen_again' = [seen_again EXCEPT ![store_name] = @ \cup {order.orderNumber}]
  /\ oi' = oi + 1
  /\ UNCHANGED <<run, pc, exit, st, item_tbl, temp_tbl, fileVars,
                 awaiting_shipment_orders_list, ii, cleanVars, cohort, recorded,
                 picked>>

\* The order's number is not in the table: INSERT the order with is_new = 1,
\* commit, and go on to its items.
ParseNewOrder ==
  /\ pc = "parse"
  /\ oi <= Len(awaiting_shipment_orders_list)
  /\ LET order == awaiting_shipment_orders_list[oi]
     IN /\ OrderRow(store_name, order.orderNumber) = {}
        /\ order_tbl' = [order_tbl EXCEPT ![store_name] =
             Append(@, [order_number |-> order.orderNumber,
                        customer_name |-> order.name, is_new |-> TRUE])]
        /\ recorded' = recorded \cup {order.orderNumber}
        /\ IF Len(order.items) = 0
           THEN /\ log' = Append(log, LogEntry(order, 1))
                /\ oi' = oi + 1
                /\ UNCHANGED <<pc, ii>>
           ELSE /\ pc' = "items"
                /\ ii' = 1
                /\ UNCHANGED <<oi, log>>
  /\ UNCHANGED <<run, exit, st, item_tbl, temp_tbl, fileVars,
                 awaiting_shipment_orders_list, cleanVars, cohort, seen_again, picked>>

\* INSERT the next item of the new order, commit; after the last one the
\* order is logged and the loop goes on to the next order.
InsertItem ==
  /\ pc = "items"
  /\ LET order == awaiting_shipment_orders_list[oi]
         item == order.items[ii]
     IN /\ item_tbl' = [item_tbl EXCEPT ![store_name] =
             Append(@, [ord_num |-> order.orderNumber, sku |-> ItemSku(item),
                        quantity |-> item.quantity])]
        /\ IF ii = Len(order.items)
           THEN /\ log' = Append(log, LogEntry(order, 1))
                /\ oi' = oi + 1
                /\ pc' = "parse"
                /\ UNCHANGED ii
           ELSE /\ ii' = ii + 1
                /\ UNCHANGED <<pc, oi, log>>
  /\ UNCHANGED <<run, exit, st, order_tbl, temp_tbl, fileVars,
                 awaiting_shipment_orders_list, cleanVars, histVars>>

\* Every fetched order is classified: the method returns.
ParseDone ==
  /\ pc = "parse"
  /\ oi > Len(awaiting_shipment_orders_list)
  /\ pc' = "clean"
  /\ UNCHANGED <<run, exit, st, dbVars, fileVars, parseVars, cleanVars, histVars>>

\* ---------------------------------------------------------------- strings
\* s[:n] and s[-n:] of Python.
Prefix(s, n) == SubSeq(s, 1, IF Len(s) < n THEN Len(s) ELSE n)
Suffix(s, n) == SubSeq(s, IF Len(s) < n THEN 1 ELSE Len(s) - n + 1, Len(s))

\* s.split('-'): the segments between the '-' of s; '' gives [''].
RECURSIVE SplitAt(_, _, _)
SplitAt(s, i, cur) ==
  IF i > Len(s) THEN <<cur>>
  ELSE IF SubSeq(s, i, i) = "-" THEN <<cur>> \o SplitAt(s, i + 1, "")
  ELSE SplitAt(s, i + 1, cur \o SubSeq(s, i, i))

Split(s) == SplitAt(s, 1, "")

\* str(n) and int(s) for the quantities, which are not negative.
Str(n) == ToString(n)

Digit(c) ==
  CASE c = "0" -> 0 [] c = "1" -> 1 [] c = "2" -> 2 [] c = "3" -> 3 [] c = "4" -> 4
    [] c = "5" -> 5 [] c = "6" -> 6 [] c = "7" -> 7 [] c = "8" -> 8 [] c = "9" -> 9

RECURSIVE ToInt(_)
ToInt(s) ==
  IF Len(s) = 1 THEN Digit(s)
  ELSE 10 * ToInt(SubSeq(s, 1, Len(s) - 1)) + Digit(SubSeq(s, Len(s), Len(s)))

\* ----------------------------------------- clean_and_normalize_order_data
\* Only the NEW ending is cut; a style ending in P is kept whole.
StripStyle_OnlyNew(style) ==
  IF Suffix(style, 3) = "NEW" THEN Prefix(style, 3) ELSE style

\* if style[-3:] == 'NEW' or style[-1] == 'P': style = style[:3]
\* (for a style that is not empty; style[-1] of '' raises IndexError)
StripStyle(style) ==
  IF Suffix(style, 3) = "NEW" \/ Suffix(style, 1) = "P" THEN Prefix(style, 3) ELSE style

\* if size == 'XXL': size = '2XL'
Xxl(size) == IF size = "XXL" THEN "2XL" ELSE size

\* What the brand rules derive from one SKU before the dictionary is touched:
\*   "sized"  a grouping key and a size label;
\*   "raise"  an exception (unpacking the wrong number of segments, style[-1]
\*            of an empty style), which the except clause catches;
\*   "skip"   a known brand whose segment count matches no branch: no
\*            statement runs;
\*   "other"  any other brand.
BrandRule(SKU) ==
  LET sku_array == Split(SKU)
      brand == sku_array[1]
      n == Len(sku_array)
      Sized(key, size) == [rule |-> "sized", key |-> key, size |-> size]
      Plain(rule) == [rule |-> rule, key |-> "", size |-> ""]
  IN CASE brand = "PREM" ->
            IF n = 3
            THEN IF sku_array[2] = ""
                 THEN Plain("raise")
                 ELSE Sized("PREM" \o "-" \o StripStyle(sku_array[2]), sku_array[3])
            ELSE IF n = 4
            THEN Sized("PREM" \o "-" \o sku_array[2] \o "-" \o sku_array[3], sku_array[4])
            ELSE Plain("skip")
       [] brand \in {"PremJeans", "PremiereJeans"} ->
            IF n = 3
            THEN Sized("PremJeans" \o "-" \o sku_array[2], sku_array[3])
            ELSE Plain("raise")
       [] brand \in {"PremTee", "PremiereLSTee"} ->
            IF n = 3
            THEN Sized(sku_array[2] \o "-" \o brand, Xxl(sku_array[3]))
            ELSE IF n = 4
            THEN Sized(brand \o "-" \o sku_array[3] \o "-" \o sku_array[2], Xxl(sku_array[4]))
            ELSE Plain("skip")
       [] OTHER -> Plain("other")

\* The grouping dictionary is the sequence of its entries in insertion order.
\* An entry holds a list of 'size-quantity' strings or a quantity string.
KeyIdx(d, key) == {i \in 1..Len(d) : d[i].key = key}
ListEntry(key, list) == [key |-> key, kind |-> "list", list |-> list, str |-> ""]
StrEntry(key, str) == [key |-> key, kind |-> "str", list |-> <<>>, str |-> str]

\* d[key] = value
SetItem(d, entry) ==
  IF KeyIdx(d, entry.key) = {} THEN Append(d, entry)
  ELSE [i \in 1..Len(d) |-> IF d[i].key = entry.key THEN entry ELSE d[i]]

\* The body of the loop for one row (SKU, quantity) of the grouping query.
NormalizeInto(d, SKU, quantity) ==
  LET r == BrandRule(SKU)
      fallback == SetItem(d, StrEntry(SKU, Str(quantity)))
      at == KeyIdx(d, r.key)
      size_quantity == r.size \o "-" \o Str(quantity)
  IN CASE r.rule = "sized" ->
            IF at = {} THEN Append(d, ListEntry(r.key, <<size_quantity>>))
            ELSE LET i == CHOOSE j \in at : TRUE
                 IN IF d[i].kind = "list"
                    THEN [d EXCEPT ![i].list = Append(@, size_quantity)]
                    ELSE fallback   \* str has no append: AttributeError, caught
       [] r.rule = "skip" -> d
       [] OTHER -> fallback

\* SELECT sku, CAST(SUM(quantity) AS UNSIGNED) FROM {store}_item INNER JOIN
\* {store}_order ON ord_num = order_number WHERE is_new = 1 GROUP BY sku
NewOrderIdx(s, ord_num) ==
  {i \in 1..Len(order_tbl[s]) :
     order_tbl[s][i].order_number = ord_num /\ order_tbl[s][i].is_new}

RECURSIVE SumQuantity(_, _, _)
SumQuantity(s, sku, n) ==
  IF n = 0 THEN 0
  ELSE SumQuantity(s, sku, n - 1) +
       (IF item_tbl[s][n].sku = sku
        THEN item_tbl[s][n].quantity * Cardinality(NewOrderIdx(s, item_tbl[s][n].ord_num))
        ELSE 0)

JoinedItemIdx(s) ==
  {i \in 1..Len(item_tbl[s]) : NewOrderIdx(s, item_tbl[s][i].ord_num) # {}}

GroupedBySku(s) ==
  { [sku |-> sku, quantity |-> SumQuantity(s, sku, Len(item_tbl[s]))] :
      sku \in {item_tbl[s][i].sku : i \in JoinedItemIdx(s)} }

\* The orders of a set in every order: GROUP BY without ORDER BY promises none.
Orderings(S) == {q \in [1..Cardinality(S) -> S] : Range(q) = S}

\* cursor.execute(query); cursor.fetchall()
CleanQuery ==
  /\ pc = "clean"
  /\ \E fetched \in Orderings(GroupedBySku(store_name)) : rows' = fetched
  /\ cohort' = {item_tbl[store_name][i].ord_num : i \in JoinedItemIdx(store_name)}
  /\ ri' = 1
  /\ pc' = IF GroupedBySku(store_name) = {} THEN "pick" ELSE "normalize"
  /\ UNCHANGED <<run, exit, st, dbVars, fileVars, parseVars,
                 skus_grouped_by_style_to_size_and_quantity, derived,
                 recorded, seen_again, picked>>

\* One pass of the loop over the fetched rows.
NormalizeRow ==
  /\ pc = "normalize"
  /\ derived' = BrandRule(rows[ri].sku)
  /\ skus_grouped_by_style_to_size_and_quantity' =
       NormalizeInto(skus_grouped_by_style_to_size_and_quantity,
                     rows[ri].sku, rows[ri].quantity)
  /\ IF ri = Len(rows)
     THEN pc' = "pick" /\ UNCHANGED ri
     ELSE ri' = ri + 1 /\ UNCHANGED pc
  /\ UNCHANGED <<run, exit, st, dbVars, fileVars, parseVars, rows, histVars>>

\* --------------------------------------------------------- create_pick_list
\* ord() of a printable ASCII character: 32..95 and 97..126 (the grave accent,
\* 96, is left out).
AsciiLow == " !\"#$%&'()*+,-./0123456789:;<=>?@ABCDEFGHIJKLMNOPQRSTUVWXYZ[\\]^_"
AsciiHigh == "abcdefghijklmnopqrstuvwxyz{|}~"

Ord(c) ==
  IF \E i \in 1..Len(AsciiLow) : SubSeq(AsciiLow, i, i) = c
  THEN 31 + CHOOSE i \in 1..Len(AsciiLow) : SubSeq(AsciiLow, i, i) = c
  ELSE 96 + CHOOSE i \in 1..Len(AsciiHigh) : SubSeq(AsciiHigh, i, i) = c

\* a < b for Python strings: by code point, a proper prefix first.
RECURSIVE StrLess(_, _)
StrLess(a, b) ==
  IF b = "" THEN FALSE
  ELSE IF a = "" THEN TRUE
  ELSE LET x == Ord(SubSeq(a, 1, 1))
           y == Ord(SubSeq(b, 1, 1))
       IN IF x = y THEN StrLess(Tail(a), Tail(b)) ELSE x < y

\* The sort key of a 'size-quantity' string: desired_order[x[:2]].
SizeKey(x) == desired_order[Prefix(x, 2)]

\* A sort that is not stable: an element goes in front of its equals.
RECURSIVE InsertBySize_Unstable(_, _)
InsertBySize_Unstable(sorted, x) ==
  IF sorted = <<>> THEN <<x>>
  ELSE IF SizeKey(x) <= SizeKey(Head(sorted)) THEN <<x>> \o sorted
  ELSE <<Head(sorted)>> \o InsertBySize_Unstable(Tail(sorted), x)

\* list.sort, on a short list a binary insertion sort: each element goes
\* behind the elements that are not greater, so equal elements keep their order.
RECURSIVE InsertBySize(_, _)
InsertBySize(sorted, x) ==
  IF sorted = <<>> THEN <<x>>
  ELSE IF SizeKey(x) < SizeKey(Head(sorted)) THEN <<x>> \o sorted
  ELSE <<Head(sorted)>> \o InsertBySize(Tail(sorted), x)

RECURSIVE SortBySize(_)
SortBySize(value) ==
  IF value = <<>> THEN <<>>
  ELSE InsertBySize(SortBySize(SubSeq(value, 1, Len(value) - 1)), value[Len(value)])

\* The lines stay in the order of the dictionary.
InsertLine_Unsorted(sorted, x) == Append(sorted, x)

RECURSIVE InsertLine(_, _)
InsertLine(sorted, x) ==
  IF sorted = <<>> THEN <<x>>
  ELSE IF StrLess(x, Head(sorted)) THEN <<x>> \o sorted
  ELSE <<Head(sorted)>> \o InsertLine(Tail(sorted), x)

RECURSIVE SortLines(_)
SortLines(pick_list) ==
  IF pick_list = <<>> THEN <<>>
  ELSE InsertLine(SortLines(SubSeq(pick_list, 1, Len(pick_list) - 1)),
                  pick_list[Len(pick_list)])

\* The quantity is shown for a single item too.
RenderSize_AlwaysQuantity(x) ==
  Split(x)[1] \o " (" \o Split(x)[2] \o ")"

\* 'MED-1' -> 'MED', 'LRG-2' -> 'LRG (2)'
RenderSize(x) ==
  LET size == Split(x)[1]
      quant == Split(x)[2]
  IN IF ToInt(quant) = 1 THEN size ELSE size \o " (" \o quant \o ")"

RECURSIVE JoinSizes(_)
JoinSizes(value) ==
  IF Len(value) = 1 THEN RenderSize(value[1])
  ELSE RenderSize(Head(value)) \o ", " \o JoinSizes(Tail(value))

\* The line of one dictionary entry, without its '\n' (which sorts below
\* every printable character, as the end of a string does).
RenderEntry(e) ==
  IF e.kind = "list" THEN e.key \o " -> " \o JoinSizes(SortBySize(e.list))
  ELSE IF ToInt(e.str) > 1 THEN e.key \o " ... (" \o e.str \o ")"
  ELSE e.key

\* desired_order[x[:2]] raises KeyError for some entry of some list.
UnknownSize(d) ==
  \E i \in 1..Len(d) : d[i].kind = "list" /\
     \E j \in 1..Len(d[i].list) : Prefix(d[i].list[j], 2) \notin DOMAIN desired_order

PickListOf(d) == SortLines([i \in 1..Len(d) |-> RenderEntry(d[i])])

\* The lists of the dictionary after the loop: sorted, each entry rendered.
Rendered(d) ==
  [i \in 1..Len(d) |->
     IF d[i].kind = "list"
     THEN [d[i] EXCEPT !.list = [j \in 1..Len(@) |-> RenderSize(SortBySize(d[i].list)[j])]]
     ELSE d[i]]

\* The file is opened for writing before the sizes are sorted, so a KeyError
\* leaves it empty.
CreatePickList_OpenFirst ==
  /\ pc = "pick"
  /\ IF UnknownSize(skus_grouped_by_style_to_size_and_quantity)
     THEN /\ EndRun("keyerror")
          /\ pick_file' = [pick_file EXCEPT ![store_name] =
               [exists |-> TRUE, pick |-> <<>>, customers |-> <<>>, quantities |-> <<>>]]
          /\ UNCHANGED picked
     ELSE /\ pick_file' = [pick_file EXCEPT ![store_name] =
               [exists |-> TRUE,
                pick |-> PickListOf(skus_grouped_by_style_to_size_and_quantity),
                customers |-> <<>>, quantities |-> <<>>]]
          /\ skus_grouped_by_style_to_size_and_quantity' =
               Rendered(skus_grouped_by_style_to_size_and_quantity)
          /\ pc' = "customers"
          /\ picked' = [picked EXCEPT ![store_name] = @ \cup cohort]
          /\ UNCHANGED <<exit, st, temp_tbl, parseVars, rows, ri, derived, cohort,
                         recorded>>
  /\ UNCHANGED <<run, order_tbl, item_tbl, log_file, seen_again>>

\* create_pick_list: the KeyError is raised inside the loop, before the file
\* is opened; nothing in main catches it, and the program ends.
CreatePickList ==
  /\ pc = "pick"
  /\ IF UnknownSize(skus_grouped_by_style_to_size_and_quantity)
     THEN /\ EndRun("keyerror")
          /\ UNCHANGED <<pick_file, picked>>
     ELSE /\ pick_file' = [pick_file EXCEPT ![store_name] =
               [exists |-> TRUE,
                pick |-> PickListOf(skus_grouped_by_style_to_size_and_quantity),
                customers |-> <<>>, quantities |-> <<>>]]
          /\ skus_grouped_by_style_to_size_and_quantity' =
               Rendered(skus_grouped_by_style_to_size_and_quantity)
          /\ pc' = "customers"
          /\ picked' = [picked EXCEPT ![store_name] = @ \cup cohort]
          /\ UNCHANGED <<exit, st, temp_tbl, parseVars, rows, ri, derived, cohort,
                         recorded>>
  /\ UNCHANGED <<run, order_tbl, item_tbl, log_file, seen_again>>

\* ------------------------------------------- customers_with_multiple_orders
\* SELECT customer_name, COUNT(customer_name) FROM {store}_order
\* WHERE is_new = 1 GROUP BY customer_name HAVING name_count > 1
NewOrderCount(s, customer) ==
  Cardinality({i \in 1..Len(order_tbl[s]) :
                 order_tbl[s][i].is_new /\ order_tbl[s][i].customer_name = customer})

CustomersHavingMany(s) ==
  { [customer_name |-> c, quantity |-> NewOrderCount(s, c)] :
      c \in {r.customer_name : r \in {x \in Range(order_tbl[s]) :
                                        NewOrderCount(s, x.customer_name) > 1}} }

\* CREATE TEMPORARY TABLE customer_with_multiple_order, INSERT INTO it.
CustomersCreate ==
  /\ pc = "customers"
  /\ ~temp_tbl.customer_with_multiple_order.exists
  /\ temp_tbl' = [temp_tbl EXCEPT !.customer_with_multiple_order =
                    [exists |-> TRUE, rows |-> CustomersHavingMany(store_name)]]
  /\ pc' = "customers_select"
  /\ UNCHANGED <<run, exit, st, order_tbl, item_tbl, fileVars, parseVars, cleanVars,
                 histVars>>

\* SELECT customer_name, order_number FROM {store}_order WHERE customer_name
\* IN (SELECT customer_name FROM customer_with_multiple_order), folded into
\* order_info_dict: customer -> order numbers, in the order of the rows.
OrderInfoDict(s, temp_rows) ==
  LET listed == {r.customer_name : r \in temp_rows}
      selected == {i \in 1..Len(order_tbl[s]) : order_tbl[s][i].customer_name \in listed}
      first == {i \in selected :
                  \A j \in selected : j < i => order_tbl[s][j].customer_name #
                                               order_tbl[s][i].customer_name}
      firsts == Ascending(first)
  IN [k \in 1..Len(firsts) |->
        LET customer == order_tbl[s][firsts[k]].customer_name
            mine == Ascending({i \in selected : order_tbl[s][i].customer_name = customer})
        IN [customer |-> customer,
            orders |-> [m \in 1..Len(mine) |-> order_tbl[s][mine[m]].order_number]]]

\* The report is written and the temporary table is left behind.
CustomersWrite_NoDrop ==
  /\ pc = "customers_select"
  /\ pick_file' = [pick_file EXCEPT ![store_name] =
       [@ EXCEPT !.exists = TRUE,
                 !.customers = Append(@, OrderInfoDict(store_name,
                                 temp_tbl.customer_with_multiple_order.rows))]]
  /\ pc' = "quantity"
  /\ UNCHANGED <<run, exit, st, dbVars, log_file, parseVars, cleanVars, histVars>>

\* The SELECT, the section appended to the pick-list file (an empty section
\* stands for the 'NO CUSTOMERS WITH MULTIPLE ORDERS' line), the DROP.
CustomersWrite ==
  /\ pc = "customers_select"
  /\ pick_file' = [pick_file EXCEPT ![store_name] =
       [@ EXCEPT !.exists = TRUE,
                 !.customers = Append(@, OrderInfoDict(store_name,
                                 temp_tbl.customer_with_multiple_order.rows))]]
  /\ temp_tbl' = [temp_tbl EXCEPT !.customer_with_multiple_order = NoTable]
  /\ pc' = "quantity"
  /\ UNCHANGED <<run, exit, st, order_tbl, item_tbl, log_file, parseVars, cleanVars,
                 histVars>>

\* ------------- orders_containing_an_item_having_a_quantity_greater_than_one
\* SELECT O.order_number, O.customer_name, I.sku, I.quantity FROM {store}_item
\* AS I INNER JOIN {store}_order AS O ON I.ord_num = O.order_number
\* WHERE O.is_new = 1 AND I.quantity > 1
RECURSIVE MultipleQuantityRows(_, _)
MultipleQuantityRows(s, n) ==
  IF n = 0 THEN <<>>
  ELSE LET item == item_tbl[s][n]
           joined == Ascending(NewOrderIdx(s, item.ord_num))
       IN MultipleQuantityRows(s, n - 1) \o
          (IF item.quantity > 1
           THEN [k \in 1..Len(joined) |->
                   [order_number |-> item.ord_num,
                    customer_name |-> order_tbl[s][joined[k]].customer_name,
                    sku |-> item.sku, quantity |-> item.quantity]]
           ELSE <<>>)

\* CREATE TEMPORARY TABLE order_with_multiple_quantity, INSERT INTO it.
QuantityCreate ==
  /\ pc = "quantity"
  /\ ~temp_tbl.order_with_multiple_quantity.exists
  /\ temp_tbl' = [temp_tbl EXCEPT !.order_with_multiple_quantity =
       [exists |-> TRUE,
        rows |-> MultipleQuantityRows(store_name, Len(item_tbl[store_name]))]]
  /\ pc' = "quantity_select"
  /\ UNCHANGED <<run, exit, st, order_tbl, item_tbl, fileVars, parseVars, cleanVars,
                 histVars>>

\* SELECT * FROM order_with_multiple_quantity, the section appended to the
\* pick-list file (an empty section stands for the 'NO ORDERS ...' line), the DROP.
QuantityWrite ==
  /\ pc = "quantity_select"
  /\ pick_file' = [pick_file EXCEPT ![store_name] =
       [@ EXCEPT !.exists = TRUE,
                 !.quantities = Append(@, temp_tbl.order_with_multiple_quantity.rows)]]
  /\ temp_tbl' = [temp_tbl EXCEPT !.order_with_multiple_quantity = NoTable]
  /\ pc' = "log"
  /\ UNCHANGED <<run, exit, st, order_tbl, item_tbl, log_file, parseVars, cleanVars,
                 histVars>>

\* ------------------------------------------------ awaiting_shipment_order_log
\* The block written for one entry of the log.
LogBlock(entry) ==
  [not_new |-> entry.is_new = 0,
   order_number |-> entry.order_number,
   customer |-> entry.customer,
   items |-> [i \in 1..Len(entry.item_list) |->
                IF entry.item_list[i][2] > 1
                THEN entry.item_list[i][1] \o " (" \o Str(entry.item_list[i][2]) \o ")"
                ELSE entry.item_list[i][1]]]

\* awaiting_shipment_order_log writes the file anew; then main goes on to the
\* next store, or closes the connection after the last one.
WriteLog ==
  /\ pc = "log"
  /\ log_file' = [log_file EXCEPT ![store_name] =
       [exists |-> TRUE, blocks |-> [i \in 1..Len(log) |-> LogBlock(log[i])]]]
  /\ IF st < Len(STORES)
     THEN NewStore(st + 1) /\ UNCHANGED <<exit, temp_tbl>>
     ELSE EndRun("ok")
  /\ UNCHANGED <<run, order_tbl, item_tbl, pick_file, seen_again, picked>>

\* ------------------------------------------------------------ specification
Next ==
  \/ StartRun
  \/ Import
  \/ DbError
  \/ MainExcept
  \/ ParseSeenOrder
  \/ ParseNewOrder
  \/ InsertItem
  \/ ParseDone
  \/ CleanQuery
  \/ NormalizeRow
  \/ CreatePickList
  \/ CustomersCreate
  \/ CustomersWrite
  \/ QuantityCreate
  \/ QuantityWrite
  \/ WriteLog

Spec == Init /\ [][Next]_vars

\* ------------------------------------------------- the normalizer alone
\* SKUs of every shape: a brand followed by up to MaxSegments - 1 segments.
NormBrands == {"PREM", "PremJeans", "PremiereJeans", "PremTee", "PremiereLSTee",
               "WIDGET", "Prem"}
NormSegments == {"", "150NEW", "301P", "XXL"}

RECURSIVE Join(_)
Join(segments) ==
  IF Len(segments) = 1 THEN segments[1]
  ELSE segments[1] \o "-" \o Join(Tail(segments))

ShapeSkus ==
  {Join(<<b>> \o t) : b \in NormBrands, t \in SeqsUpTo(NormSegments, MaxSegments - 1)}

\* SKUs that meet in one group, with sizes in and out of the size table, SKUs
\* whose text is another SKU's grouping key, and unsized SKUs.
GroupSkus ==
  {"PREM-150-XL", "PREM-150NEW-XL", "PREM-150-MED", "PREM-150NEW-2XL",
   "PREM-150-XLT", "PREM-150-XS", "PREM-150",
   "PremJeans-BLK-32", "PremiereJeans-BLK-50", "PremJeans-BLK-30", "PremJeans-BLK",
   "PremTee-524-XXL", "524-PremTee", "PremTee-NAVY-524-LRG", "Gift Box"}

\* The sets of distinct SKUs one grouping query returns.
NormInputs ==
  {{x} : x \in ShapeSkus} \cup
  {S \in SUBSET GroupSkus : Cardinality(S) \in 1..MaxRows}

\* The store has classified one new order with these items and is about to
\* clean and normalize.
InitNorm ==
  \E skus \in NormInputs : \E quantity \in [skus -> 1..MaxQuantity] :
    LET listed == CHOOSE q \in [1..Cardinality(skus) -> skus] : Range(q) = skus
        order == [orderNumber |-> "1001", name |-> "Ann",
                  items |-> [i \in 1..Len(listed) |->
                               [sku |-> listed[i], name |-> "Item",
                                quantity |-> quantity[listed[i]]]]]
    IN /\ run = 1
       /\ pc = "clean"
       /\ exit = "none"
       /\ st = 1
       /\ order_tbl = [s \in StoreNames |->
            IF s = STORES[1]
            THEN <<[order_number |-> "1001", customer_name |-> "Ann", is_new |-> TRUE]>>
            ELSE <<>>]
       /\ item_tbl = [s \in StoreNames |->
            IF s = STORES[1]
            THEN [i \in 1..Len(listed) |->
                    [ord_num |-> "1001", sku |-> ItemSku(order.items[i]),
                     quantity |-> order.items[i].quantity]]
            ELSE <<>>]
       /\ temp_tbl = NoTemp
       /\ pick_file = [s \in StoreNames |-> NoFile]
       /\ log_file = [s \in StoreNames |-> NoLog]
       /\ awaiting_shipment_orders_list = <<order>>
       /\ oi = 2
       /\ ii = Len(listed)
       /\ log = <<LogEntry(order, 1)>>
       /\ rows = <<>>
       /\ ri = 0
       /\ skus_grouped_by_style_to_size_and_quantity = <<>>
       /\ derived = NoDerived
       /\ cohort = {}
       /\ recorded = {"1001"}
       /\ seen_again = [s \in StoreNames |-> {}]
       /\ picked = [s \in StoreNames |-> {}]

NextNorm ==
  \/ CleanQuery
  \/ NormalizeRow
  \/ CreatePickList

SpecNorm == InitNorm /\ [][NextNorm]_vars

\* ================================================================== claims
\* The item rows of one order, in table order.
ItemsOf(s, order_num) ==
  LET idx == Ascending({i \in 1..Len(item_tbl[s]) : item_tbl[s][i].ord_num = order_num})
  IN [k \in 1..Len(idx) |-> item_tbl[s][idx[k]]]

\* The item rows a complete recording of a fetched order consists of.
ItemsRecorded(order) ==
  [i \in 1..Len(order.items) |->
     [ord_num |-> order.orderNumber, sku |-> ItemSku(order.items[i]),
      quantity |-> order.items[i].quantity]]

\* C1: whatever is fetched, however often, a store's order table holds at
\* most one row per order number.
C1_OneRowPerOrderNumber ==
  \A s \in StoreNames : \A i, j \in 1..Len(order_tbl[s]) :
    order_tbl[s][i].order_number = order_tbl[s][j].order_number => i = j

\* An order was fetched twice in one run: recorded the first time, found in
\* the ledger the second time.
C1_Witness ==
  \E i, j \in 1..Len(log) :
    /\ i < j
    /\ log[i].order_number = log[j].order_number
    /\ log[i].is_new = 1
    /\ log[j].is_new = 0

\* C2: a pick list just written was computed only from orders that this run
\* recorded.
C2_PickListOnlyFromThisRun ==
  pc = "customers" => cohort \subseteq recorded

\* C3: between runs, an order row is in the ledger exactly when all of the
\* order's item rows are.
C3_OrderWithAllItems ==
  pc = "idle" =>
    \A s \in StoreNames : \A order \in Catalog[s] :
      OrderRow(s, order.orderNumber) # {} <=>
        ItemsOf(s, order.orderNumber) = ItemsRecorded(order)

\* C4: an order classified as already in the ledger has is_new false from
\* then on, and no grouping query of that run or of a later run joins it.
C4_SeenAgainExcluded ==
  \A s \in StoreNames : \A order_num \in seen_again[s] :
    /\ \A i \in OrderRow(s, order_num) : ~order_tbl[s][i].is_new
    /\ (st # 0 /\ store_name = s) => order_num \notin cohort

\* A pick list was written from new orders in a run of a store that has an
\* order seen again.
C4_Witness ==
  /\ pc = "customers"
  /\ seen_again[store_name] # {}
  /\ cohort # {}

\* C5: every step keeps the rows of both tables, in place and unchanged but
\* for is_new, which never goes from false to true; a row that is added to
\* the order table has is_new true.
C5_IsNewMonotone ==
  [][\A s \in StoreNames :
       /\ Len(order_tbl'[s]) >= Len(order_tbl[s])
       /\ \A i \in 1..Len(order_tbl[s]) :
            /\ order_tbl'[s][i].order_number = order_tbl[s][i].order_number
            /\ order_tbl'[s][i].customer_name = order_tbl[s][i].customer_name
            /\ order_tbl'[s][i].is_new => order_tbl[s][i].is_new
       /\ \A i \in (Len(order_tbl[s]) + 1)..Len(order_tbl'[s]) : order_tbl'[s][i].is_new
       /\ Len(item_tbl'[s]) >= Len(item_tbl[s])
       /\ SubSeq(item_tbl'[s], 1, Len(item_tbl[s])) = item_tbl[s]]_vars

\* An order inserted with is_new true and later seen again has is_new false.
C5_Witness ==
  \E s \in StoreNames : \E i \in 1..Len(order_tbl[s]) :
    /\ ~order_tbl[s][i].is_new
    /\ order_tbl[s][i].order_number \in seen_again[s]

\* The row the loop of clean_and_normalize_order_data handled last.
LastRow == IF pc = "normalize" THEN rows[ri - 1] ELSE rows[Len(rows)]
LoopHandledARow ==
  \/ pc = "normalize" /\ ri > 1
  \/ pc = "pick" /\ rows # <<>>

\* A SKU of a known brand with a segment count a rule of the brand accepts.
FitsRule(SKU) ==
  LET seg == Split(SKU)
  IN \/ seg[1] = "PREM" /\ Len(seg) \in {3, 4}
     \/ seg[1] \in {"PremJeans", "PremiereJeans"} /\ Len(seg) = 3
     \/ seg[1] \in {"PremTee", "PremiereLSTee"} /\ Len(seg) \in {3, 4}

\* C6: when the loop over the grouped rows is over, every row whose SKU fits
\* no brand rule has a scalar entry under its raw SKU that carries the row's
\* quantity.
C6_UnfitSkuKeptAsScalar ==
  pc = "pick" =>
    \A i \in 1..Len(rows) :
      ~FitsRule(rows[i].sku) =>
        \E j \in KeyIdx(skus_grouped_by_style_to_size_and_quantity, rows[i].sku) :
          /\ skus_grouped_by_style_to_size_and_quantity[j].kind = "str"
          /\ skus_grouped_by_style_to_size_and_quantity[j].str = Str(rows[i].quantity)

\* The rule table of the specification: grouping key and size label of a
\* SKU that fits a rule.
TableStyle(style) ==
  IF Len(style) >= 3 /\ SubSeq(style, Len(style) - 2, Len(style)) = "NEW"
  THEN SubSeq(style, 1, 3)
  ELSE IF Len(style) >= 1 /\ SubSeq(style, Len(style), Len(style)) = "P"
  THEN SubSeq(style, 1, IF Len(style) < 3 THEN Len(style) ELSE 3)
  ELSE style

TableKey(SKU) ==
  LET seg == Split(SKU)
  IN CASE seg[1] = "PREM" /\ Len(seg) = 3 -> "PREM-" \o TableStyle(seg[2])
       [] seg[1] = "PREM" /\ Len(seg) = 4 -> "PREM-" \o seg[2] \o "-" \o seg[3]
       [] seg[1] \in {"PremJeans", "PremiereJeans"} -> "PremJeans-" \o seg[2]
       [] seg[1] \in {"PremTee", "PremiereLSTee"} /\ Len(seg) = 3 ->
            seg[2] \o "-" \o seg[1]
       [] seg[1] \in {"PremTee", "PremiereLSTee"} /\ Len(seg) = 4 ->
            seg[1] \o "-" \o seg[3] \o "-" \o seg[2]

TableSize(SKU) ==
  LET seg == Split(SKU)
      last == seg[Len(seg)]
  IN IF seg[1] \in {"PremTee", "PremiereLSTee"} /\ last = "XXL" THEN "2XL" ELSE last

\* The loop derived the table's key and size for the row, and the list under
\* that key, if the key holds a list, ends with the row's size-quantity.
GroupedAsInTable(row) ==
  /\ derived = [rule |-> "sized", key |-> TableKey(row.sku), size |-> TableSize(row.sku)]
  /\ \E j \in KeyIdx(skus_grouped_by_style_to_size_and_quantity, TableKey(row.sku)) :
       LET e == skus_grouped_by_style_to_size_and_quantity[j]
       IN e.kind = "list" =>
            e.list[Len(e.list)] = TableSize(row.sku) \o "-" \o Str(row.quantity)

EmptyPremStyle(SKU) ==
  Split(SKU)[1] = "PREM" /\ Len(Split(SKU)) = 3 /\ Split(SKU)[2] = ""

C7_ReportListsOnlyNewOrders ==
  pc = "quantity" =>
    LET sections == pick_file[store_name].customers
        section == sections[Len(sections)]
    IN \A k \in 1..Len(section) : \A m \in 1..Len(section[k].orders) :
         \A i \in OrderRow(store_name, section[k].orders[m]) :
           order_tbl[store_name][i].is_new

\* The size priority table of the specification, lowest first.
SizePriority ==
  <<"SM", "ME", "LR", "XL", "2X", "3X", "4X", "5X", "6X", "7X", "8X",
    "32", "34", "36", "38", "40", "42", "44", "46", "48", "50">>

SizeRank(x) == CHOOSE k \in 1..Len(SizePriority) : SizePriority[k] = Prefix(x, 2)

\* The one arrangement of a list's positions by rising priority in which
\* positions of the same priority stay in their order.
StableOrder(list) ==
  CHOOSE p \in Orderings(1..Len(list)) :
    \A a, b \in 1..Len(list) :
      a < b => \/ SizeRank(list[p[a]]) < SizeRank(list[p[b]])
               \/ SizeRank(list[p[a]]) = SizeRank(list[p[b]]) /\ p[a] < p[b]

\* C9: whenever create_pick_list writes a pick list, the entries of every
\* sized group are in the order of the size priority table, entries of the
\* same priority in the order they had in the group, and the group's line of
\* the pick list shows them in this order.
C9_SizesInPriorityOrder ==
  [][(pc = "pick" /\ pc' = "customers") =>
       \A i \in 1..Len(skus_grouped_by_style_to_size_and_quantity) :
         LET e == skus_grouped_by_style_to_size_and_quantity[i]
             p == StableOrder(e.list)
             ordered == [k \in 1..Len(e.list) |-> e.list[p[k]]]
         IN e.kind = "list" =>
              /\ skus_grouped_by_style_to_size_and_quantity'[i].list =
                   [k \in 1..Len(ordered) |-> RenderSize(ordered[k])]
              /\ e.key \o " -> " \o JoinSizes(ordered) \in
                   Range(pick_file'[store_name].pick)]_vars

\* A group of two sizes of the same priority was written in their input order.
C9_Witness ==
  /\ pc = "customers"
  /\ rows = <<[sku |-> "PREM-150-XLT", quantity |-> 1],
              [sku |-> "PREM-150-XL", quantity |-> 2]>>
  /\ pick_file[store_name].pick = <<"PREM-150 -> XLT, XL (2)">>

\* Some sized entry of some group has a size label whose first two
\* characters are not in the size priority table.
UnrecognizedSize ==
  \E i \in 1..Len(skus_grouped_by_style_to_size_and_quantity) :
    LET e == skus_grouped_by_style_to_size_and_quantity[i]
    IN e.kind = "list" /\
       \E j \in 1..Len(e.list) : Prefix(e.list[j], 2) \notin Range(SizePriority)

\* C10: when create_pick_list meets a size label outside the size priority
\* table, the step ends the run with the KeyError and leaves every pick-list
\* file as it was.
C10_UnknownSizeFailsWithoutFile ==
  [][(pc = "pick" /\ UnrecognizedSize) =>
       /\ pick_file' = pick_file
       /\ pc' = "idle"
       /\ exit' = "keyerror"]_vars

\* A run ended with the KeyError in a store whose pick-list file of an
\* earlier run is still there.
C10_Witness ==
  /\ exit = "keyerror"
  /\ pick_file["ebay"].exists
  /\ \E i \in 1..Len(item_tbl["ebay"]) : item_tbl["ebay"][i].sku = "PremJeans-BLK-30"

\* The rendering of the specification: an entry 'SIZE-quantity' of a sized
\* group, the entries joined, and the line of a group.
SpecEntry(x) ==
  LET seg == Split(x)
  IN IF seg[2] = "1" THEN seg[1] ELSE seg[1] \o " (" \o seg[2] \o ")"

RECURSIVE CommaJoined(_)
CommaJoined(q) ==
  IF Len(q) = 1 THEN q[1] ELSE q[1] \o ", " \o CommaJoined(Tail(q))

SpecLine(e) ==
  IF e.kind = "list"
  THEN LET p == StableOrder(e.list)
       IN e.key \o " -> " \o CommaJoined([k \in 1..Len(e.list) |-> SpecEntry(e.list[p[k]])])
  ELSE IF e.str = "1" THEN e.key ELSE e.key \o " ... (" \o e.str \o ")"

\* C11: whenever create_pick_list writes a pick list, its lines are, one for
\* one, the renderings of the groups of the dictionary: a sized group as
\* 'key -> e1, e2, ...' with 'SIZE' for quantity 1 and 'SIZE (quantity)'
\* otherwise, a scalar group as 'key' for quantity 1 and 'key ... (quantity)'
\* otherwise.
C11_OneRenderedLinePerGroup ==
  [][(pc = "pick" /\ pc' = "customers") =>
       LET d == skus_grouped_by_style_to_size_and_quantity
           written == pick_file'[store_name].pick
       IN \E p \in Orderings(1..Len(d)) :
            written = [k \in 1..Len(d) |-> SpecLine(d[p[k]])]]_vars

\* A pick list of two groups was written: a scalar group of quantity 2 and a
\* sized group with one entry of quantity 1.
C11_Witness ==
  /\ pc = "customers"
  /\ Len(skus_grouped_by_style_to_size_and_quantity) = 2
  /\ pick_file[store_name].pick = <<"Gift Box ... (2)", "PREM-150 -> MED">>

\* C12: whenever create_pick_list writes a pick list, the file holds the
\* rendered lines in ascending code-point order and nothing else: the
\* sections appended to the file before are gone.
C12_LinesAscendingFileReplaced ==
  [][(pc = "pick" /\ pc' = "customers") =>
       LET written == pick_file'[store_name]
       IN /\ \A k \in 1..(Len(written.pick) - 1) :
               ~StrLess(written.pick[k + 1], written.pick[k])
          /\ written.exists
          /\ written.customers = <<>>
          /\ written.quantities = <<>>]_vars

\* In a second run a pick list of two lines has replaced the file that the
\* first run had written to its end.
C12_Witness ==
  /\ pc = "customers"
  /\ run = 2
  /\ log_file[store_name].exists
  /\ pick_file[store_name].customers = <<>>
  /\ Len(pick_file[store_name].pick) = 2

\* The log entry the specification asks for the fetched order at position i.
SpecLogEntry(i, is_new) ==
  LET order == awaiting_shipment_orders_list[i]
  IN [order_number |-> order.orderNumber, customer |-> order.name,
      is_new |-> is_new,
      item_list |-> [k \in 1..Len(order.items) |->
                       <<ItemSku(order.items[k]), order.items[k].quantity>>]]

InLedger(i) ==
  OrderRow(store_name, awaiting_shipment_orders_list[i].orderNumber) # {}

\* C13: an order found in the ledger when it is classified gets its log entry
\* with is_new 0 at once; an order not found gets its entry with is_new 1 when
\* its items are recorded, and no other step touches the log of the run; when
\* the last order is classified the log holds one entry per fetched order in
\* fetch order; the log writer marks exactly the entries with is_new 0.
C13_LogFollowsClassification ==
  [][/\ (pc = "parse" /\ pc' \in {"parse", "items"}) =>
          IF InLedger(oi)
          THEN pc' = "parse" /\ oi' = oi + 1 /\ log' = Append(log, SpecLogEntry(oi, 0))
          ELSE pc' = "items" /\ oi' = oi /\ log' = log
     /\ (pc = "items" /\ pc' = "items") => log' = log /\ oi' = oi
     /\ (pc = "items" /\ pc' = "parse") =>
          oi' = oi + 1 /\ log' = Append(log, SpecLogEntry(oi, 1))
     /\ (pc = "parse" /\ pc' = "clean") =>
          /\ Len(log) = Len(awaiting_shipment_orders_list)
          /\ \A i \in 1..Len(log) : \E n \in {0, 1} : log[i] = SpecLogEntry(i, n)
     /\ (pc \in {"clean", "normalize", "pick", "customers", "customers_select",
                 "quantity", "quantity_select"} /\ pc' # "idle") => log' = log
     /\ pc = "log" =>
          LET blocks == log_file'[store_name].blocks
          IN /\ Len(blocks) = Len(log)
             /\ \A i \in 1..Len(log) :
                  /\ blocks[i].order_number = log[i].order_number
                  /\ blocks[i].customer = log[i].customer
                  /\ blocks[i].not_new <=> log[i].is_new = 0]_vars

\* A log file was written with an order marked as not new behind an order
\* that is not marked.
C13_Witness ==
  \E s \in StoreNames :
    /\ log_file[s].exists
    /\ Len(log_file[s].blocks) = 2
    /\ ~log_file[s].blocks[1].not_new
    /\ log_file[s].blocks[2].not_new

\* C14: a step on which a statement of the ledger is refused while an order
\* is being recorded leaves the store at the next fetched order.
C14_OrderErrorAbortsOrderOnly ==
  [][(pc \in {"parse", "items"} /\ exit' = "dberror") =>
       /\ pc' = "parse"
       /\ st' = st
       /\ oi' = oi + 1]_vars

NoTempTableBut(places) ==
  /\ pc \notin ({"customers_select"} \cup places) =>
       ~temp_tbl.customer_with_multiple_order.exists
  /\ pc \notin ({"quantity_select"} \cup places) =>
       ~temp_tbl.order_with_multiple_quantity.exists

\* C15 (as stated): outside the report operation that created it, a
\* temporary table does not exist, also when the operation ended with an
\* error.
C15_NoTempTableOutsideReport == NoTempTableBut({})

\* C15 (amended): outside the report operation that created it, a temporary
\* table exists only while main's except clause handles an error the
\* operation raised; it does not exist when a store's processing starts.
C15_NoTempTableWhenStoreStarts == NoTempTableBut({"except"})

\* The second store starts after both reports of the first were written.
C15_Witness ==
  /\ st = 2
  /\ pc = "import"
  /\ pick_file[STORES[1]].customers # <<>>
  /\ pick_file[STORES[1]].quantities # <<>>
  /\ temp_tbl = NoTemp

\* C16: when an order that an earlier run recorded is fetched again for the
\* first time, and so leaves every later pick list, it has been joined for a
\* pick list that was written.
C16_RecordedOrderWasPicked ==
  [][(pc = "parse" /\ pc' = "parse" /\ oi' = oi + 1) =>
       LET order_num == awaiting_shipment_orders_list[oi].orderNumber
       IN (/\ order_num \notin recorded
           /\ \E i \in OrderRow(store_name, order_num) : order_tbl[store_name][i].is_new)
          => order_num \in picked[store_name]]_vars

\* The quantities the grouping query returned and the quantities the
\* grouping dictionary holds, added up.
RECURSIVE RowsTotal(_)
RowsTotal(q) == IF q = <<>> THEN 0 ELSE q[1].quantity + RowsTotal(Tail(q))

RECURSIVE ListTotal(_)
ListTotal(list) ==
  IF list = <<>> THEN 0 ELSE ToInt(Split(list[1])[2]) + ListTotal(Tail(list))

RECURSIVE DictTotal(_)
DictTotal(d) ==
  IF d = <<>> THEN 0
  ELSE (IF d[1].kind = "list" THEN ListTotal(d[1].list) ELSE ToInt(d[1].str)) +
       DictTotal(Tail(d))

\* A SKU of a brand with rules for 3 and 4 segments and another segment
\* count, which the loop passes over (C6).
PassedOver(SKU) ==
  LET seg == Split(SKU)
  IN seg[1] \in {"PREM", "PremTee", "PremiereLSTee"} /\ Len(seg) \notin {3, 4}

\* C17: when the loop over the grouped rows is over and none of the SKUs was
\* passed over, the quantities in the grouping dictionary add up to the
\* quantities of the rows.
C17_QuantityConserved ==
  (pc = "pick" /\ \A i \in 1..Len(rows) : ~PassedOver(rows[i].sku)) =>
    DictTotal(skus_grouped_by_style_to_size_and_quantity) = RowsTotal(rows)

====
